---- MODULE Spec2Model ----
(***************************************************************************)
(* Stock trend analyzer: the analysis orchestrator (src/src/main.py), the  *)
(* market-data client (src/src/mcp/vantage_client.py), the synthetic       *)
(* series generator and the report formatter (src/src/utils/helpers.py),   *)
(* the settings (src/config.py) and the dashboard (src/app.py).            *)
(*                                                                         *)
(* The data model (src/models/schemas.py) and the analysis graph           *)
(* (src/graph/stock_analysis_graph.py) are imported by these files but are *)
(* not part of the sources at hand; they are modelled from spec.md         *)
(* sections 3, 4.2 and 4.5.                                                *)
(*                                                                         *)
(* Four specifications share the variables:                                *)
(*   Spec     one call of StockAnalysisApp.analyze_stock, the pipeline it  *)
(*            drives and the client call of the fetch stage                *)
(*   SpecGen  one call of create_sample_data, iteration by iteration       *)
(*   SpecFmt  format_analysis_output / format_output on a bounded set of   *)
(*            results                                                      *)
(*   SpecUI   script runs of StreamlitStockApp.run                         *)
(* Optional values are sequences: None is <<>>, a present value x is <<x>>.*)
(* Calendar days are counted from 1970-01-01 (day 0, a Thursday); a        *)
(* formatted date is <<year, month, day>>. Prices are integers in          *)
(* thousandths of the currency unit.                                       *)
(***************************************************************************)
EXTENDS Integers, Sequences, FiniteSets, TLC

VARIABLES
    \* ---- settings and client (config.py, vantage_client.py)
    base_url,        \* config.MCP_SERVER_URL
    use_mock_data,   \* VantageMCPServer.use_mock_data
    clientPc,        \* get_stock_data: "idle", "called", "responded", "returned", "raised"
    outcome,         \* what requests.post did in this call
    httpRequests,    \* number of requests.post calls issued by this call
    clientRet,       \* get_stock_data's return value (optional)
    clientExc,       \* the exception get_stock_data raised (optional)
    \* ---- orchestrator and pipeline (main.py, graph)
    now,             \* the day datetime.now() falls on
    pc,              \* analyze_stock: "ready", "try", "graph", "raised", "returned", "propagated"
    args,            \* analyze_stock's arguments
    state,           \* the pipeline execution state
    stage,           \* the pipeline stage to run next, "END" when none
    running,         \* TRUE while a stage is between its start and its end
    trace,           \* the stage events so far, in order
    invoked,         \* number of graph.ainvoke calls
    exc,             \* the exception raised inside analyze_stock's try (optional)
    result,          \* analyze_stock's return value (optional)
    \* ---- create_sample_data (helpers.py)
    gpc,             \* "start", "loop", "done"
    gnow,            \* the day datetime.now() falls on
    base_price,      \* in thousandths
    i,               \* the loop variable of range(250)
    dates,           \* the dates of data_points, in order of appending
    point,           \* the record appended last (optional)
    \* ---- format_analysis_output (helpers.py)
    fpc,             \* "input", "done"
    fresult,         \* the argument
    foutput,         \* the returned text (optional)
    \* ---- dashboard (app.py)
    upc,             \* position of run() in the current script run
    widgets,         \* what the widgets return in the current script run
    sidebar,         \* what setup_sidebar returned (optional)
    config7,         \* the seven names run() unpacks into (optional)
    analyzeCalls,    \* calls of self.app.analyze_stock in the current script run
    analysis,        \* what run_analysis returned in the current script run (optional)
    sidebarErrors,   \* st.sidebar.error messages of the current script run
    mainErrors,      \* st.error messages of the current script run
    rendered,        \* the panels rendered in the current script run
    session_state    \* st.session_state, kept across script runs

clientVars == <<base_url, use_mock_data, clientPc, outcome, httpRequests, clientRet, clientExc>>
orchVars == <<now, pc, args, state, stage, running, trace, invoked, exc, result>>
genVars == <<gpc, gnow, base_price, i, dates, point>>
fmtVars == <<fpc, fresult, foutput>>
uiVars == <<upc, widgets, sidebar, config7, analyzeCalls, analysis, sidebarErrors,
            mainErrors, rendered, session_state>>
vars == <<clientVars, orchVars, genVars, fmtVars, uiVars>>

None == <<>>
Some(x) == <<x>>
Get(r, k) == IF k \in DOMAIN r THEN r[k] ELSE None

Max(a, b) == IF a >= b THEN a ELSE b
Min(a, b) == IF a <= b THEN a ELSE b

(***************************************************************************)
(* Bounds of the model.                                                    *)
(***************************************************************************)
\* datetime.now() ranges over the days FirstNow .. FirstNow + NowSpan;
\* day 20762 is 2026-11-05
FirstNow == 20762
NowSpan == 6
Nows == FirstNow .. FirstNow + NowSpan
\* create_sample_data is stepped through on the days FirstNow .. FirstNow + GenSpan
GenSpan == 2
GenNows == FirstNow .. FirstNow + GenSpan
\* the dashboard's date pickers range over the days Today - DateSpan .. Today
DateSpan == 2

(***************************************************************************)
(* Settings: src/config.py                                                 *)
(***************************************************************************)
SUPPORTED_PERIODS == {"1d", "1w", "1m", "3m", "6m", "1y", "2y", "5y"}
DEFAULT_PERIOD == "1y"
MockSentinel == "mock"
\* values of the environment variable MCP_SERVER_URL; unset gives the default
ServerUrls == {MockSentinel, "Mock", "http://localhost:8000"}

(***************************************************************************)
(* Data model: spec.md sections 3 and 4.2                                  *)
(***************************************************************************)
TimePeriodValues == {"1d", "1w", "1m", "3m", "6m", "1y", "2y", "5y"}
\* TimePeriod(period): the member, or ValueError
TimePeriod(p) ==
    IF p \in TimePeriodValues
    THEN [ok |-> TRUE, value |-> p, cls |-> "", msg |-> ""]
    ELSE [ok |-> FALSE, value |-> "", cls |-> "ValueError",
          msg |-> "'" \o p \o "' is not a valid TimePeriod"]
StockRequest(symbol, period, start_date, end_date) ==
    [symbol |-> symbol, period |-> period, start_date |-> start_date, end_date |-> end_date]

(***************************************************************************)
(* Synthetic series: src/src/utils/helpers.py, create_sample_data          *)
(***************************************************************************)
WindowDays == 365
SampleDays == 250
BaseLevel == 100
BaseSpread == 20
OpenSpread == 2
CloseSpread == 5
WickMax == 3
VolumeMin == 1000000
VolumeMax == 5000000

\* date.weekday(): Monday is 0, Sunday is 6
Weekday(z) == (z + 3) % 7
\* date.strftime("%Y-%m-%d"): the civil date of day z, as <<year, month, day>>
StrfTime(z) ==
    LET z2 == z + 719468
        era == z2 \div 146097
        doe == z2 - era * 146097
        yoe == (doe - doe \div 1460 + doe \div 36524 - doe \div 146096) \div 365
        doy == doe - (365 * yoe + yoe \div 4 - yoe \div 100)
        mp == (5 * doy + 2) \div 153
        d == doy - (153 * mp + 2) \div 5 + 1
        m == IF mp < 10 THEN mp + 3 ELSE mp - 9
        y == yoe + era * 400 + (IF m <= 2 THEN 1 ELSE 0)
    IN <<y, m, d>>
\* the day a formatted date names (what a reader of the record parses it to)
StrpTime(ymd) ==
    LET y == ymd[1] - (IF ymd[2] <= 2 THEN 1 ELSE 0)
        era == y \div 400
        yoe == y - era * 400
        mp == IF ymd[2] > 2 THEN ymd[2] - 3 ELSE ymd[2] + 9
        doy == (153 * mp + 2) \div 5 + ymd[3] - 1
        doe == yoe * 365 + yoe \div 4 - yoe \div 100 + doy
    IN era * 146097 + doe - 719468
\* "YYYY-MM-DD" strings compare as their <<year, month, day>> do
DateBefore(a, b) ==
    \/ a[1] < b[1]
    \/ a[1] = b[1] /\ a[2] < b[2]
    \/ a[1] = b[1] /\ a[2] = b[2] /\ a[3] < b[3]

\* current_date = datetime.now() - timedelta(days=365)
CurrentDate(n) == n - WindowDays
\* if date.weekday() < 5
IsWeekday(z) == Weekday(z) < 5
\* round(x, 2) on thousandths: to the nearest hundredth, a tie to the even one
Round2(x) ==
    LET q == x \div 10
        r == x % 10
    IN IF r < 5 THEN 10 * q
       ELSE IF r > 5 THEN 10 * (q + 1)
       ELSE IF q % 2 = 0 THEN 10 * q ELSE 10 * (q + 1)

\* base_price = 100 + random.randint(-20, 20)
BasePrice(b) == 1000 * (BaseLevel + b)
\* open_price = base_price + random.uniform(-2, 2)
OpenPrice(base, u) == base + u
\* close_price = open_price + random.uniform(-5, 5)
ClosePrice(o, u) == o + u
\* mutant: the wick added to the open alone
HighPriceFromOpen(o, c, u) == o + u
\* high_price = max(open_price, close_price) + random.uniform(0, 3)
HighPrice(o, c, u) == Max(o, c) + u
\* low_price = min(open_price, close_price) - random.uniform(0, 3)
LowPrice(o, c, u) == Min(o, c) - u
\* the record appended for day z
DataPoint(z, o, h, l, c, v) ==
    [date |-> StrfTime(z), open |-> Round2(o), high |-> Round2(h), low |-> Round2(l),
     close |-> Round2(c), volume |-> v, adjusted_close |-> Round2(c)]

\* the draws the model takes: the ends of each range and values that round
BaseDraws == {-BaseSpread, BaseSpread}
OpenDraws == {-1000 * OpenSpread, 1000 * OpenSpread - 5}
CloseDraws == {4 - 1000 * CloseSpread, 1000 * CloseSpread}
HighDraws == {0, 1000 * WickMax}
LowDraws == {0, 1000 * WickMax}
VolumeDraws == {VolumeMin, VolumeMax}

\* the dates of the points create_sample_data emits when called on day n
SampleDates(n) ==
    LET kept == SelectSeq([k \in 1..SampleDays |-> CurrentDate(n) + (k - 1)], IsWeekday)
    IN [k \in 1..Len(kept) |-> StrfTime(kept[k])]
\* SampleDates on the days of the model, computed once
SampleDatesOn == [n \in Nows |-> SampleDates(n)]
\* the returned mapping; the points are kept by their dates
SampleData(symbol, period, n) ==
    [source |-> "synthetic", symbol |-> symbol, period |-> period,
     has_data |-> TRUE, data |-> SampleDatesOn[n]]

(***************************************************************************)
(* Market-data client: src/src/mcp/vantage_client.py                       *)
(***************************************************************************)
\* mutant: the sentinel compared without regard to case
UseMockAnyCase(url) == url \in {MockSentinel, "Mock", "MOCK"}
\* __init__: self.use_mock_data = config.MCP_SERVER_URL == "mock"
UseMock(url) == url = MockSentinel

\* what requests.post(..., timeout=30) can do: a response with a status code, or a
\* requests.exceptions.RequestException (connection failure, timeout)
HttpOutcomes ==
    [status : {200, 404, 500}, err : {""}]
        \cup [status : {0}, err : {"ConnectionError", "Timeout"}]
NoOutcome == [status |-> 0, err |-> ""]

\* what a 200 response can carry: a series, an empty series, JSON without a series,
\* or a body that is no JSON at all (valid = FALSE)
ProviderBodies(req) ==
    { [source |-> "provider", symbol |-> req.symbol, period |-> req.period,
       has_data |-> h, data |-> d, valid |-> v] :
         <<h, d, v>> \in { <<TRUE, <<1, 2, 3>>, TRUE>>, <<TRUE, <<>>, TRUE>>,
                           <<FALSE, <<>>, TRUE>>, <<FALSE, <<>>, FALSE>> } }
Json(body) ==
    [source |-> body.source, symbol |-> body.symbol, period |-> body.period,
     has_data |-> body.has_data, data |-> body.data]

Returned(value) == [pc |-> "returned", ret |-> Some(value), exc |-> None]
Raised(cls, msg) == [pc |-> "raised", ret |-> None, exc |-> Some([cls |-> cls, msg |-> msg])]

\* mutant: the provider's failure handed on to the caller
FallbackRaises(req, n) == Raised("RequestException", "MCP Server error")
\* the two fallback branches: return create_sample_data(symbol, period)
Fallback(req, n) == Returned(SampleData(req.symbol, req.period, n))

\* if response.status_code == 200: return response.json(). A body that is no JSON
\* makes response.json() raise: a RequestException in requests >= 2.27 (caught,
\* fallback), a plain ValueError before (not caught); either can be installed.
OnStatus200(req, body, n) ==
    IF body.valid
    THEN {Returned(Json(body))}
    ELSE {Fallback(req, n), Raised("ValueError", "Expecting value")}

\* the outcomes of get_stock_data after requests.post did `o`
AfterPost(req, o, n) ==
    IF o.err = "" /\ o.status = 200
    THEN UNION {OnStatus200(req, b, n) : b \in ProviderBodies(req)}
    ELSE {Fallback(req, n)}

\* if self.use_mock_data: await asyncio.sleep(1); return create_sample_data(...)
GetStockDataMock ==
    /\ clientPc = "called"
    /\ use_mock_data
    /\ clientRet' = Some(SampleData(state.stock_request[1].symbol,
                                    state.stock_request[1].period, now))
    /\ clientPc' = "returned"
    /\ UNCHANGED <<base_url, use_mock_data, outcome, httpRequests, clientExc>>
    /\ UNCHANGED <<orchVars, genVars, fmtVars, uiVars>>

\* response = requests.post(f"{self.base_url}/stock/data", ...)
HttpPost ==
    /\ clientPc = "called"
    /\ ~use_mock_data
    /\ \E o \in HttpOutcomes : outcome' = o
    /\ httpRequests' = httpRequests + 1
    /\ clientPc' = "responded"
    /\ UNCHANGED <<base_url, use_mock_data, clientRet, clientExc>>
    /\ UNCHANGED <<orchVars, genVars, fmtVars, uiVars>>

\* the status test and the except clause
HandleResponse ==
    /\ clientPc = "responded"
    /\ \E r \in AfterPost(state.stock_request[1], outcome, now) :
         /\ clientPc' = r.pc
         /\ clientRet' = r.ret
         /\ clientExc' = r.exc
    /\ UNCHANGED <<base_url, use_mock_data, outcome, httpRequests>>
    /\ UNCHANGED <<orchVars, genVars, fmtVars, uiVars>>

ClientIdle ==
    /\ clientPc = "idle"
    /\ outcome = NoOutcome
    /\ httpRequests = 0
    /\ clientRet = None
    /\ clientExc = None

(***************************************************************************)
(* Orchestrator: src/src/main.py                                           *)
(***************************************************************************)
\* str.upper() on the symbols the model passes
Upper(s) ==
    CASE s = "amzn" -> "AMZN"
      [] s = "Aapl" -> "AAPL"
      [] OTHER -> s
Symbols == {"amzn", "Aapl", ""}
Periods == SUPPORTED_PERIODS \cup {"10y", "1Y", "1 Year", ""}
DateArgs == {<<None, None>>, <<Some("2025-11-05"), Some("2026-11-05")>>}

EmptyState ==
    [stock_request |-> None, raw_data |-> None, processed_data |-> None,
     analysis_result |-> None, error |-> None]
\* mutant: a result left over in the initial state
InitialStateKeepsResult(req) ==
    [stock_request |-> Some(req), raw_data |-> None, processed_data |-> None,
     analysis_result |-> Some([symbol |-> req.symbol, period |-> req.period,
                               data_points |-> <<>>,
                               statistics |-> [data_points |-> 0],
                               trends |-> None,
                               summary |-> [total_data_points |-> 0]]),
     error |-> None]
\* mutant: an error left over in the initial state
InitialStateKeepsError(req) ==
    [stock_request |-> Some(req), raw_data |-> None, processed_data |-> None,
     analysis_result |-> None, error |-> Some("stale error")]
\* initial_state = {...}
InitialState(req) ==
    [stock_request |-> Some(req), raw_data |-> None, processed_data |-> None,
     analysis_result |-> None, error |-> None]

\* mutant: the try opened after the request is built
TryCoversPipelineOnly(where) == where = "pipeline"
\* the statements the try block of analyze_stock covers
TryCovers(where) == where \in {"construct", "pipeline"}
\* except Exception as e: return {"error": f"Analysis failed: {str(e)}"}
ErrorResult(e) == [error |-> Some("Analysis failed: " \o e.msg)]

\* async def analyze_stock(self, symbol, period="1y", start_date=None, end_date=None)
AnalyzeStock ==
    /\ pc = "ready"
    /\ \E s \in Symbols, p \in Periods, d \in DateArgs :
         args' = [symbol |-> s, period |-> p, start_date |-> d[1], end_date |-> d[2]]
    /\ pc' = "try"
    /\ UNCHANGED <<now, state, stage, running, trace, invoked, exc, result>>
    /\ UNCHANGED <<clientVars, genVars, fmtVars, uiVars>>

\* mutant: period=period, the string handed on without TimePeriod(period)
BuildRequestUnparsed ==
    /\ pc = "try"
    /\ state' = InitialState(StockRequest(Upper(args.symbol), args.period,
                                          args.start_date, args.end_date))
    /\ pc' = "graph"
    /\ stage' = "fetch"
    /\ invoked' = invoked + 1
    /\ UNCHANGED <<now, args, running, trace, result, exc>>
    /\ UNCHANGED <<clientVars, genVars, fmtVars, uiVars>>

\* stock_request = StockRequest(symbol=symbol.upper(), period=TimePeriod(period), ...)
\* initial_state = {...}; then self.graph.ainvoke(initial_state) is entered
BuildRequest ==
    /\ pc = "try"
    /\ LET tp == TimePeriod(args.period)
       IN IF tp.ok
          THEN /\ state' = InitialState(StockRequest(Upper(args.symbol), tp.value,
                                                     args.start_date, args.end_date))
               /\ pc' = "graph"
               /\ stage' = "fetch"
               /\ invoked' = invoked + 1
               /\ exc' = exc
          ELSE /\ exc' = Some([where |-> "construct", cls |-> tp.cls, msg |-> tp.msg])
               /\ pc' = "raised"
               /\ UNCHANGED <<state, stage, invoked>>
    /\ UNCHANGED <<now, args, running, trace, result>>
    /\ UNCHANGED <<clientVars, genVars, fmtVars, uiVars>>

\* an exception raised in analyze_stock: the except clause, when the try covers it
Except ==
    /\ pc = "raised"
    /\ IF TryCovers(exc[1].where)
       THEN /\ result' = Some(ErrorResult(exc[1]))
            /\ pc' = "returned"
       ELSE /\ pc' = "propagated"
            /\ result' = result
    /\ UNCHANGED <<now, args, state, stage, running, trace, invoked, exc>>
    /\ UNCHANGED <<clientVars, genVars, fmtVars, uiVars>>

\* result = await self.graph.ainvoke(initial_state); return result
GraphReturn ==
    /\ pc = "graph"
    /\ stage = "END"
    /\ ~running
    /\ result' = Some(state)
    /\ pc' = "returned"
    /\ UNCHANGED <<now, args, state, stage, running, trace, invoked, exc>>
    /\ UNCHANGED <<clientVars, genVars, fmtVars, uiVars>>

\* ainvoke raises instead of returning: a fault no stage turned into an error
GraphRaise ==
    /\ pc = "graph"
    /\ running
    /\ exc' = Some([where |-> "pipeline", cls |-> "RuntimeError",
                    msg |-> "graph execution failed at " \o stage])
    /\ pc' = "raised"
    /\ UNCHANGED <<now, args, state, stage, running, trace, invoked, result>>
    /\ UNCHANGED <<clientVars, genVars, fmtVars, uiVars>>

(***************************************************************************)
(* Analysis pipeline: spec.md section 4.5. Four stages share `state`; a    *)
(* stage that faults stores an error and the remaining stages are skipped. *)
(***************************************************************************)
Stages == <<"fetch", "process", "classify", "assemble">>
NextStage(s) ==
    CASE s = "fetch" -> "process"
      [] s = "process" -> "classify"
      [] s = "classify" -> "assemble"
      [] OTHER -> "END"
\* where the pipeline goes after a stage left `st`: on to the next stage, or to the end
Route(s, st) == IF st.error # None THEN "END" ELSE NextStage(s)

StageFailed(s, st, msg) == [st EXCEPT !.error = Some(s \o " failed: " \o msg)]

\* 1. Fetch: store what the client returned, or the error for what it raised
FetchEffect(st, ret, raised) ==
    IF raised # None
    THEN StageFailed("fetch", st, raised[1].msg)
    ELSE [st EXCEPT !.raw_data = ret]

\* 2. Process: normalise the day records and derive the statistics
ProcessEffect(st, fault) ==
    LET raw == st.raw_data[1]
    IN IF fault \/ ~raw.has_data
       THEN StageFailed("process", st, "malformed payload")
       ELSE [st EXCEPT !.processed_data =
                 Some([data_points |-> raw.data,
                       statistics |-> [data_points |-> Len(raw.data)],
                       summary |-> [total_data_points |-> Len(raw.data)],
                       trends |-> None])]

\* 3. Classify and narrate: a failed narrative call leaves a placeholder
ClassifyEffect(st, fault, llm_ok) ==
    IF fault
    THEN StageFailed("classify", st, "unexpected fault")
    ELSE [st EXCEPT !.processed_data =
              Some([st.processed_data[1] EXCEPT !.trends =
                        Some([analysis |-> IF llm_ok THEN "narrative"
                                           ELSE "narrative unavailable"])])]

\* 4. Assemble: build the StockAnalysis, store it, clear any transient error
AssembleEffect(st, fault) ==
    IF fault
    THEN StageFailed("assemble", st, "unexpected fault")
    ELSE [st EXCEPT
            !.analysis_result =
                Some([symbol |-> st.stock_request[1].symbol,
                      period |-> st.stock_request[1].period,
                      data_points |-> st.processed_data[1].data_points,
                      statistics |-> st.processed_data[1].statistics,
                      trends |-> st.processed_data[1].trends,
                      summary |-> st.processed_data[1].summary]),
            !.error = None]

\* a stage starts: the fetch stage calls the client
StageBegin ==
    /\ pc = "graph"
    /\ ~running
    /\ stage # "END"
    /\ running' = TRUE
    /\ trace' = Append(trace, <<stage, "begin">>)
    /\ clientPc' = IF stage = "fetch" THEN "called" ELSE clientPc
    /\ UNCHANGED <<now, pc, args, state, stage, invoked, exc, result>>
    /\ UNCHANGED <<base_url, use_mock_data, outcome, httpRequests, clientRet, clientExc>>
    /\ UNCHANGED <<genVars, fmtVars, uiVars>>

StageEnd(s, st) ==
    /\ state' = st
    /\ stage' = Route(s, st)
    /\ running' = FALSE
    /\ trace' = Append(trace, <<s, "end">>)
    /\ UNCHANGED <<now, pc, args, invoked, exc, result>>
    /\ UNCHANGED <<clientVars, genVars, fmtVars, uiVars>>

FetchEnd ==
    /\ pc = "graph" /\ running /\ stage = "fetch"
    /\ clientPc \in {"returned", "raised"}
    /\ StageEnd("fetch", FetchEffect(state, clientRet, clientExc))

ProcessEnd ==
    /\ pc = "graph" /\ running /\ stage = "process"
    /\ \E fault \in BOOLEAN : StageEnd("process", ProcessEffect(state, fault))

ClassifyEnd ==
    /\ pc = "graph" /\ running /\ stage = "classify"
    /\ \E fault \in BOOLEAN, llm_ok \in BOOLEAN :
         StageEnd("classify", ClassifyEffect(state, fault, llm_ok))

AssembleEnd ==
    /\ pc = "graph" /\ running /\ stage = "assemble"
    /\ \E fault \in BOOLEAN : StageEnd("assemble", AssembleEffect(state, fault))

(***************************************************************************)
(* Idle values of the parts a specification does not run.                  *)
(***************************************************************************)
ClientOff ==
    /\ base_url = MockSentinel
    /\ use_mock_data = UseMock(MockSentinel)
    /\ ClientIdle
OrchOff ==
    /\ now = FirstNow
    /\ pc = "off"
    /\ args = [symbol |-> "", period |-> "", start_date |-> None, end_date |-> None]
    /\ state = EmptyState
    /\ stage = "END"
    /\ running = FALSE
    /\ trace = <<>>
    /\ invoked = 0
    /\ exc = None
    /\ result = None
GenOff ==
    /\ gpc = "off"
    /\ gnow = FirstNow
    /\ base_price = 0
    /\ i = 0
    /\ dates = <<>>
    /\ point = None
FmtOff ==
    /\ fpc = "off"
    /\ fresult = [error |-> None]
    /\ foutput = None
UiOff ==
    /\ upc = "off"
    /\ widgets = None
    /\ sidebar = None
    /\ config7 = None
    /\ analyzeCalls = 0
    /\ analysis = None
    /\ sidebarErrors = <<>>
    /\ mainErrors = <<>>
    /\ rendered = <<>>
    /\ session_state = [quick_symbol |-> None]

(***************************************************************************)
(* Spec: one call of analyze_stock in a process configured by the          *)
(* environment.                                                            *)
(***************************************************************************)
Init ==
    /\ base_url \in ServerUrls
    /\ use_mock_data = UseMock(base_url)
    /\ ClientIdle
    /\ now \in Nows
    /\ pc = "ready"
    /\ args = [symbol |-> "", period |-> "", start_date |-> None, end_date |-> None]
    /\ state = EmptyState
    /\ stage = "END"
    /\ running = FALSE
    /\ trace = <<>>
    /\ invoked = 0
    /\ exc = None
    /\ result = None
    /\ GenOff /\ FmtOff /\ UiOff

Next ==
    \/ AnalyzeStock
    \/ BuildRequest
    \/ StageBegin
    \/ GetStockDataMock
    \/ HttpPost
    \/ HandleResponse
    \/ FetchEnd
    \/ ProcessEnd
    \/ ClassifyEnd
    \/ AssembleEnd
    \/ GraphReturn
    \/ GraphRaise
    \/ Except

Spec == Init /\ [][Next]_vars

(***************************************************************************)
(* Claims checked under Spec.                                              *)
(***************************************************************************)
CanonicalTrace ==
    <<  <<"fetch", "begin">>, <<"fetch", "end">>, <<"process", "begin">>,
        <<"process", "end">>, <<"classify", "begin">>, <<"classify", "end">>,
        <<"assemble", "begin">>, <<"assemble", "end">>  >>
IsPrefix(s, t) == Len(s) <= Len(t) /\ s = SubSeq(t, 1, Len(s))
Populated(r, k) == Get(r, k) # None

\* C1: analyze_stock never lets an exception out: a fault raised while the request is
\* built or while the pipeline runs comes back as {error: "Analysis failed: <message>"},
\* and without a fault the pipeline's terminal state comes back.
C1_NeverPropagates ==
    /\ pc # "propagated"
    /\ pc = "returned" =>
         IF exc # None
         THEN result = Some([error |-> Some("Analysis failed: " \o exc[1].msg)])
         ELSE stage = "END" /\ ~running /\ result = Some(state)
C1_Witness ==
    /\ pc = "returned"
    /\ exc # None
    /\ exc[1].where = "pipeline"
    /\ result = Some([error |-> Some("Analysis failed: graph execution failed at process")])

\* C2: a terminal state the pipeline returns, started from analyze_stock's initial
\* state, has exactly one of analysis_result and error populated.
C2_ExactlyOne ==
    (pc = "returned" /\ exc = None) =>
        (Populated(result[1], "analysis_result") # Populated(result[1], "error"))
C2_Witness ==
    /\ pc = "returned"
    /\ exc = None
    /\ Populated(result[1], "error")
    /\ ~Populated(result[1], "analysis_result")
    /\ Populated(result[1], "raw_data")

\* C3: the stages run in the order fetch, process, classify, assemble, each starting
\* after its predecessor has ended; once a stage has set error no stage event follows
\* and there is no analysis_result.
C3_StageOrder ==
    /\ [](IsPrefix(trace, CanonicalTrace))
    /\ [](state.error # None => state.analysis_result = None)
    /\ [][state.error # None => trace' = trace]_vars
C3_Witness ==
    /\ pc = "returned"
    /\ state.error # None
    /\ trace = SubSeq(CanonicalTrace, 1, 4)

\* C4: a period outside the eight codes makes request construction fail: the pipeline
\* is not invoked and an error is returned; each of the eight codes gets the request
\* built and the pipeline invoked (once).
C4_PeriodValidation ==
    LET built == pc \notin {"ready", "try"}
        codes == {"1d", "1w", "1m", "3m", "6m", "1y", "2y", "5y"}
    IN /\ (built /\ args.period \notin codes) =>
            /\ invoked = 0
            /\ trace = <<>>
            /\ exc # None /\ exc[1].where = "construct"
            /\ pc = "returned" => Populated(result[1], "error")
       /\ (built /\ args.period \in codes) =>
            /\ invoked = 1
            /\ state.stock_request = Some([symbol |-> Upper(args.symbol),
                                           period |-> args.period,
                                           start_date |-> args.start_date,
                                           end_date |-> args.end_date])
C4_Witness ==
    /\ pc = "returned"
    /\ args.period = "1Y"
    /\ invoked = 0
    /\ Populated(result[1], "error")

\* C5: in live mode, whatever the provider call did other than answer 200,
\* get_stock_data returns the synthetic series for the request's symbol and period,
\* raises nothing, and has issued exactly one request; no call issues more than one.
C5_LiveFallback ==
    LET req == state.stock_request[1]
        failed == ~(outcome.err = "" /\ outcome.status = 200)
    IN /\ httpRequests <= 1
       /\ (base_url # "mock" /\ clientPc \in {"returned", "raised"} /\ failed) =>
            /\ clientPc = "returned"
            /\ clientExc = None
            /\ httpRequests = 1
            /\ clientRet = Some([source |-> "synthetic", symbol |-> req.symbol,
                                 period |-> req.period, has_data |-> TRUE,
                                 data |-> SampleDatesOn[now]])
C5_Witness ==
    /\ base_url # "mock"
    /\ outcome.err = "Timeout"
    /\ clientPc = "returned"
    /\ clientRet[1].source = "synthetic"
    /\ httpRequests = 1

\* C6: use_mock_data is true exactly when the base URL is "mock"; in mock mode
\* get_stock_data issues no request and returns a synthetic series with a point in it.
C6_MockMode ==
    /\ use_mock_data <=> (base_url = "mock")
    /\ use_mock_data => (httpRequests = 0 /\ outcome = NoOutcome /\ clientPc # "raised")
    /\ (use_mock_data /\ clientPc = "returned") =>
         /\ clientRet[1].source = "synthetic"
         /\ Len(clientRet[1].data) >= 1
C6_Witness ==
    /\ use_mock_data
    /\ clientPc = "returned"
    /\ Len(clientRet[1].data) >= 1
    /\ httpRequests = 0

(***************************************************************************)
(* SpecGen: one call of create_sample_data, one loop iteration a step.     *)
(* data_points is kept as the dates appended so far plus the record        *)
(* appended last.                                                          *)
(***************************************************************************)
\* base_price = ...; data_points = []; current_date = ...
GenStart ==
    /\ gpc = "start"
    /\ \E b \in BaseDraws : base_price' = BasePrice(b)
    /\ i' = 0
    /\ dates' = <<>>
    /\ gpc' = "loop"
    /\ UNCHANGED <<gnow, point>>
    /\ UNCHANGED <<clientVars, orchVars, fmtVars, uiVars>>

\* an iteration whose date is a Saturday or a Sunday
GenSkip ==
    /\ gpc = "loop"
    /\ i < SampleDays
    /\ ~IsWeekday(CurrentDate(gnow) + i)
    /\ i' = i + 1
    /\ UNCHANGED <<gpc, gnow, base_price, dates, point>>
    /\ UNCHANGED <<clientVars, orchVars, fmtVars, uiVars>>

\* an iteration whose date is a weekday: draw the prices, append the record
GenEmit ==
    /\ gpc = "loop"
    /\ i < SampleDays
    /\ IsWeekday(CurrentDate(gnow) + i)
    /\ \E uo \in OpenDraws, uc \in CloseDraws, uh \in HighDraws, ul \in LowDraws,
          v \in VolumeDraws :
         LET z == CurrentDate(gnow) + i
             o == OpenPrice(base_price, uo)
             c == ClosePrice(o, uc)
             h == HighPrice(o, c, uh)
             l == LowPrice(o, c, ul)
         IN /\ point' = Some(DataPoint(z, o, h, l, c, v))
            /\ dates' = Append(dates, StrfTime(z))
    /\ i' = i + 1
    /\ UNCHANGED <<gpc, gnow, base_price>>
    /\ UNCHANGED <<clientVars, orchVars, fmtVars, uiVars>>

\* return {"symbol": symbol, "period": period, "data": data_points}
GenReturn ==
    /\ gpc = "loop"
    /\ i = SampleDays
    /\ gpc' = "done"
    /\ UNCHANGED <<gnow, base_price, i, dates, point>>
    /\ UNCHANGED <<clientVars, orchVars, fmtVars, uiVars>>

InitGen ==
    /\ gpc = "start"
    /\ gnow \in GenNows
    /\ base_price = 0
    /\ i = 0
    /\ dates = <<>>
    /\ point = None
    /\ ClientOff /\ OrchOff /\ FmtOff /\ UiOff

NextGen ==
    \/ GenStart
    \/ GenSkip
    \/ GenEmit
    \/ GenReturn

SpecGen == InitGen /\ [][NextGen]_vars

\* the loop and the closed form used for the client's return value agree
GenAgreesWithSampleDates == gpc = "done" => dates = SampleDatesOn[gnow]

(***************************************************************************)
(* Claims checked under SpecGen.                                           *)
(***************************************************************************)
FirstWeekdayFrom(z) == CHOOSE d \in z .. z + 2 : IsWeekday(d) /\ \A e \in z .. d - 1 : ~IsWeekday(e)
LastWeekdayUpTo(z) == CHOOSE d \in z - 2 .. z : IsWeekday(d) /\ \A e \in d + 1 .. z : ~IsWeekday(e)

\* C7: every point create_sample_data emits has, in the values as emitted,
\* high >= max(open, close), low <= min(open, close), no negative price,
\* adjusted_close = close, a volume in [1,000,000, 5,000,000] and a weekday as its date.
C7_PointShape ==
    point # None =>
        LET p == point[1]
        IN /\ p.high >= Max(p.open, p.close)
           /\ p.low <= Min(p.open, p.close)
           /\ p.open >= 0 /\ p.high >= 0 /\ p.low >= 0 /\ p.close >= 0
           /\ p.adjusted_close = p.close
           /\ p.volume \in 1000000 .. 5000000
           /\ Weekday(StrpTime(p.date)) \in 0 .. 4
           /\ p.date = dates[Len(dates)]
C7_Witness ==
    /\ gpc = "done"
    /\ point # None
    /\ point[1].close > point[1].open
    /\ point[1].high = point[1].close
    /\ point[1].low < point[1].open

\* C8, as claimed: the returned series has about 250 points (within a tenth), one per
\* weekday in strictly increasing date order, from the first weekday at or after
\* 365 days before the generation day to the last weekday at or before it.
C8_YearEndingToday ==
    gpc = "done" =>
        /\ Len(dates) \in 225 .. 275
        /\ \A k \in 1 .. Len(dates) - 1 : DateBefore(dates[k], dates[k + 1])
        /\ \A k \in 1 .. Len(dates) : IsWeekday(StrpTime(dates[k]))
        /\ dates[1] = StrfTime(FirstWeekdayFrom(gnow - 365))
        /\ dates[Len(dates)] = StrfTime(LastWeekdayUpTo(gnow))

(***************************************************************************)
(* Report formatter: src/src/utils/helpers.py, format_analysis_output, and *)
(* StockAnalysisApp.format_output of src/src/main.py.                      *)
(***************************************************************************)
\* Python's truth value of an optional string: None and "" are false
TruthyText(v) == v # None /\ v # Some("")
\* f"{x:.2f}" of a non-negative amount given in thousandths
Fixed2(x) ==
    LET cents == Round2(x) \div 10
        frac == cents % 100
    IN ToString(cents \div 100) \o "." \o (IF frac < 10 THEN "0" ELSE "") \o ToString(frac)
\* three digits, zero-padded
Digits3(n) == (IF n < 100 THEN "0" ELSE "") \o (IF n < 10 THEN "0" ELSE "") \o ToString(n)
\* f"{n:,.0f}" of a non-negative integer below 10^9
Grouped(n) ==
    IF n < 1000 THEN ToString(n)
    ELSE IF n < 1000000 THEN ToString(n \div 1000) \o "," \o Digits3(n % 1000)
    ELSE ToString(n \div 1000000) \o "," \o Digits3((n \div 1000) % 1000)
             \o "," \o Digits3(n % 1000)
\* dict.get(key, default) on a mapping kept as a function
GetOr(d, k, default) == IF k \in DOMAIN d THEN d[k] ELSE default
\* str.upper() on the classification words
UpperWord(w) ==
    CASE w = "bullish" -> "BULLISH"
      [] w = "bearish" -> "BEARISH"
      [] w = "neutral" -> "NEUTRAL"
      [] w = "low" -> "LOW"
      [] w = "medium" -> "MEDIUM"
      [] w = "high" -> "HIGH"
      [] w = "unknown" -> "UNKNOWN"
      [] OTHER -> w
\* "\n".join(output)
RECURSIVE JoinLines(_)
JoinLines(lines) ==
    IF Len(lines) = 0 THEN ""
    ELSE IF Len(lines) = 1 THEN lines[1]
    ELSE lines[1] \o "\n" \o JoinLines(Tail(lines))

\* the report of a StockAnalysis
Report(a) ==
    JoinLines(<<
        "STOCK ANALYSIS REPORT",
        "Symbol: " \o a.symbol,
        "Period: " \o a.period,
        "Data Points: " \o ToString(GetOr(a.summary, "total_data_points", 0)),
        "",
        "PRICE SUMMARY",
        "Current Price: $" \o Fixed2(GetOr(a.statistics, "current_price", 0)),
        "Price Change: $" \o Fixed2(GetOr(a.statistics, "price_change", 0))
            \o " (" \o Fixed2(GetOr(a.statistics, "percent_change", 0)) \o "%)",
        "Period High: $" \o Fixed2(GetOr(a.statistics, "period_high", 0)),
        "Period Low: $" \o Fixed2(GetOr(a.statistics, "period_low", 0)),
        "Average Volume: " \o Grouped(GetOr(a.statistics, "avg_volume", 0)),
        "",
        "TREND ANALYSIS",
        "Trend Direction: " \o UpperWord(GetOr(a.trends, "trend_direction", "unknown")),
        "Volatility: " \o UpperWord(GetOr(a.trends, "volatility", "unknown")),
        "",
        "DETAILED ANALYSIS",
        GetOr(a.trends, "analysis", "No detailed analysis available") >>)

\* mutant: the analysis looked at before the error
FormatAnalysisFirst(r) ==
    IF Get(r, "analysis_result") # None THEN Report(Get(r, "analysis_result")[1])
    ELSE IF TruthyText(Get(r, "error")) THEN "Error: " \o r.error[1]
    ELSE "No analysis result available"
\* def format_analysis_output(result)
FormatAnalysisOutput(r) ==
    IF TruthyText(Get(r, "error")) THEN "Error: " \o r.error[1]
    ELSE IF Get(r, "analysis_result") = None THEN "No analysis result available"
    ELSE Report(Get(r, "analysis_result")[1])
\* def format_output(self, result): return format_analysis_output(result)
FormatOutput(r) == FormatAnalysisOutput(r)

\* the results the formatter is applied to
SampleAnalyses ==
    { [symbol |-> "AMZN", period |-> "1y",
       summary |-> [total_data_points |-> 178],
       statistics |-> [current_price |-> 101250, price_change |-> 1255,
                       percent_change |-> 1255, period_high |-> 123000,
                       period_low |-> 70005, avg_volume |-> 3000000],
       trends |-> [trend_direction |-> "bullish", volatility |-> "medium",
                   analysis |-> "narrative"]],
      [symbol |-> "AAPL", period |-> "1m",
       summary |-> <<>>, statistics |-> <<>>, trends |-> <<>>] }
ErrorFields == {<<>>, <<None>>, <<Some("")>>, <<Some("fetch failed: timeout")>>,
                <<Some("Analysis failed: '10y' is not a valid TimePeriod")>>}
AnalysisFields == {<<>>, <<None>>} \cup {<<Some(a)>> : a \in SampleAnalyses}
RawFields == {<<>>, <<None>>, <<Some("payload")>>}
\* the mapping with the keys whose field is given (<<>> leaves the key out)
Mapping(e, a, w) ==
    LET keys == (IF e = <<>> THEN {} ELSE {"error"})
                  \cup (IF a = <<>> THEN {} ELSE {"analysis_result"})
                  \cup (IF w = <<>> THEN {} ELSE {"raw_data"})
    IN [k \in keys |-> CASE k = "error" -> e[1]
                         [] k = "analysis_result" -> a[1]
                         [] OTHER -> w[1]]
FormatInputs == {Mapping(e, a, w) : e \in ErrorFields, a \in AnalysisFields, w \in RawFields}

CallFormatAnalysisOutput ==
    /\ fpc = "input"
    /\ foutput' = Some(FormatAnalysisOutput(fresult))
    /\ fpc' = "format_analysis_output"
    /\ UNCHANGED fresult
    /\ UNCHANGED <<clientVars, orchVars, genVars, uiVars>>

CallFormatOutput ==
    /\ fpc = "input"
    /\ foutput' = Some(FormatOutput(fresult))
    /\ fpc' = "format_output"
    /\ UNCHANGED fresult
    /\ UNCHANGED <<clientVars, orchVars, genVars, uiVars>>

InitFmt ==
    /\ fpc = "input"
    /\ fresult \in FormatInputs
    /\ foutput = None
    /\ ClientOff /\ OrchOff /\ GenOff /\ UiOff

NextFmt ==
    \/ CallFormatAnalysisOutput
    \/ CallFormatOutput

SpecFmt == InitFmt /\ [][NextFmt]_vars

(***************************************************************************)
(* Claims checked under SpecFmt.                                           *)
(***************************************************************************)
\* C9: format_analysis_output, and format_output through it, returns exactly
\* "Error: <message>" for a result that carries an error message, whatever else the
\* result holds, and exactly "No analysis result available" for a result with neither
\* an error nor an analysis_result.
C9_ErrorAndEmpty ==
    LET e == Get(fresult, "error")
        a == Get(fresult, "analysis_result")
        carries == e # None /\ e # Some("")
    IN fpc \in {"format_analysis_output", "format_output"} =>
         /\ carries => foutput = Some("Error: " \o e[1])
         /\ (~carries /\ a = None) => foutput = Some("No analysis result available")
C9_Witness ==
    /\ fpc = "format_output"
    /\ Get(fresult, "error") = Some("fetch failed: timeout")
    /\ Get(fresult, "analysis_result") # None
    /\ foutput = Some("Error: fetch failed: timeout")

(***************************************************************************)
(* Dashboard: src/app.py, StreamlitStockApp. A script run is one execution *)
(* of run() with the values the widgets return in it; a button returns     *)
(* True only in the run its click triggered, so at most one is pressed.    *)
(***************************************************************************)
Today == FirstNow
PickerDates == Today - DateSpan .. Today
\* period_options
PeriodLabels ==
    {"1 Day", "1 Week", "1 Month", "3 Months", "6 Months", "1 Year", "2 Years", "5 Years"}
PeriodOptions(label) ==
    CASE label = "1 Day" -> "1d"
      [] label = "1 Week" -> "1w"
      [] label = "1 Month" -> "1m"
      [] label = "3 Months" -> "3m"
      [] label = "6 Months" -> "6m"
      [] label = "1 Year" -> "1y"
      [] label = "2 Years" -> "2y"
      [] OTHER -> "5y"
SymbolTexts == {"", "amzn", "MSFT"}
Buttons == {"none", "analyze", "quick_amzn", "quick_aapl"}
\* <<show_technical, show_volume, detailed_analysis>>
Toggles == {<<TRUE, TRUE, TRUE>>, <<TRUE, FALSE, TRUE>>, <<FALSE, TRUE, FALSE>>}
\* the date pickers are shown, and return a date, only with the checkbox ticked
DatePairs(custom) ==
    IF custom THEN {<<Some(a), Some(b)>> : a \in PickerDates, b \in PickerDates}
    ELSE {<<None, None>>}
WidgetValues ==
    UNION { { [symbol_text |-> t, selected_period |-> l, use_custom_dates |-> c,
               start_date |-> d[1], end_date |-> d[2], toggles |-> g, pressed |-> b] :
                 t \in SymbolTexts, l \in PeriodLabels, d \in DatePairs(c),
                 g \in Toggles, b \in Buttons } : c \in BOOLEAN }

\* mutant: equal dates let through
DatesRejectedIfAfter(start, end) == start > end
\* if start_date >= end_date
DatesRejected(start, end) == start >= end

\* what setup_sidebar returns: four values after a rejected date range, else seven
SetupSidebarReturn(w) ==
    IF /\ w.use_custom_dates
       /\ w.start_date # None /\ w.end_date # None
       /\ DatesRejected(w.start_date[1], w.end_date[1])
    THEN <<None, None, None, None>>
    ELSE << Some(Upper(w.symbol_text)), Some(PeriodOptions(w.selected_period)),
            w.start_date, w.end_date,
            Some(w.toggles[1]), Some(w.toggles[2]), Some(w.toggles[3]) >>

\* what the analysis objects hold that the panels read
UiAnalyses == [has_points : BOOLEAN, has_statistics : BOOLEAN, has_narrative : BOOLEAN]
\* what run_analysis can return: analyze_stock's mapping, or None after an exception
\* inside run_analysis
RunAnalysisReturns ==
    {Some([analysis_result |-> Some(a), error |-> None]) : a \in UiAnalyses}
        \cup { Some([analysis_result |-> None, error |-> Some("fetch failed: timeout")]),
               Some([error |-> Some("Analysis failed: graph execution failed at fetch")]),
               Some([analysis_result |-> None, error |-> None]),
               None }

\* the panels of a successful analysis, in the order run() renders them
ResultPanels(a, show_volume, detailed) ==
    <<"divider">>
        \o (IF a.has_statistics THEN <<"metrics">> ELSE <<>>)
        \o (IF a.has_points THEN <<"price_chart">> ELSE <<>>)
        \o <<"key_statistics">>
        \o (IF show_volume /\ a.has_points THEN <<"volume_chart">> ELSE <<>>)
        \o <<"trend_analysis">>
        \o (IF detailed /\ a.has_narrative THEN <<"detailed_trend_analysis">> ELSE <<>>)
        \o (IF a.has_points THEN <<"raw_data", "download_csv">> ELSE <<>>)

\* an interaction starts a script run: the header is rendered
RunStart ==
    /\ upc = "idle"
    /\ \E w \in WidgetValues : widgets' = Some(w)
    /\ upc' = "sidebar"
    /\ rendered' = <<"header">>
    /\ UNCHANGED <<sidebar, config7, analyzeCalls, analysis, sidebarErrors, mainErrors,
                   session_state>>
    /\ UNCHANGED <<clientVars, orchVars, genVars, fmtVars>>

\* the script run is over, by reaching the end of run() or by an uncaught exception;
\* the next run starts from nothing but st.session_state
AwaitInteraction ==
    /\ upc \in {"end", "crashed"}
    /\ upc' = "idle"
    /\ widgets' = None
    /\ sidebar' = None
    /\ config7' = None
    /\ analyzeCalls' = 0
    /\ analysis' = None
    /\ sidebarErrors' = <<>>
    /\ mainErrors' = <<>>
    /\ rendered' = <<>>
    /\ UNCHANGED session_state
    /\ UNCHANGED <<clientVars, orchVars, genVars, fmtVars>>

\* self.setup_sidebar()
SetupSidebar ==
    /\ upc = "sidebar"
    /\ LET ret == SetupSidebarReturn(widgets[1])
       IN /\ sidebar' = Some(ret)
          /\ IF Len(ret) = 4
             THEN /\ sidebarErrors' = Append(sidebarErrors, "Start date must be before end date")
                  /\ rendered' = Append(rendered, "sidebar_inputs")
             ELSE /\ sidebarErrors' = sidebarErrors
                  /\ rendered' = rendered \o <<"sidebar_inputs", "analysis_options">>
    /\ upc' = "unpack"
    /\ UNCHANGED <<widgets, config7, analyzeCalls, analysis, mainErrors, session_state>>
    /\ UNCHANGED <<clientVars, orchVars, genVars, fmtVars>>

\* (symbol, period, start_date, end_date, show_technical, show_volume,
\*  detailed_analysis) = ...: a ValueError unless seven values came back
Unpack ==
    /\ upc = "unpack"
    /\ IF Len(sidebar[1]) = 7
       THEN /\ config7' = sidebar
            /\ upc' = "button"
       ELSE /\ config7' = config7
            /\ upc' = "crashed"
    /\ UNCHANGED <<widgets, sidebar, analyzeCalls, analysis, sidebarErrors, mainErrors,
                   rendered, session_state>>
    /\ UNCHANGED <<clientVars, orchVars, genVars, fmtVars>>

\* mutant: the analysis started without the test of the symbol
AnalyzeButtonUnchecked ==
    /\ upc = "button"
    /\ rendered' = Append(rendered, "analyze_button")
    /\ upc' = IF widgets[1].pressed = "analyze" THEN "analyzing" ELSE "quick"
    /\ UNCHANGED <<widgets, sidebar, config7, analyzeCalls, analysis, sidebarErrors,
                   mainErrors, session_state>>
    /\ UNCHANGED <<clientVars, orchVars, genVars, fmtVars>>

\* if st.sidebar.button("Analyze Stock"): if symbol: ... else: st.error(...)
AnalyzeButton ==
    /\ upc = "button"
    /\ rendered' = Append(rendered, "analyze_button")
    /\ IF widgets[1].pressed = "analyze"
       THEN IF config7[1][1] # Some("")
            THEN /\ upc' = "analyzing"
                 /\ mainErrors' = mainErrors
            ELSE /\ upc' = "quick"
                 /\ mainErrors' = Append(mainErrors, "Please enter a stock symbol")
       ELSE /\ upc' = "quick"
            /\ mainErrors' = mainErrors
    /\ UNCHANGED <<widgets, sidebar, config7, analyzeCalls, analysis, sidebarErrors,
                   session_state>>
    /\ UNCHANGED <<clientVars, orchVars, genVars, fmtVars>>

\* result = asyncio.run(self.run_analysis(symbol, period, start_date, end_date))
RunAnalysis ==
    /\ upc = "analyzing"
    /\ analyzeCalls' = analyzeCalls + 1
    /\ \E r \in RunAnalysisReturns :
         /\ analysis' = Some(r)
         /\ mainErrors' = IF r = None
                          THEN Append(mainErrors, "Analysis failed: run_analysis")
                          ELSE mainErrors
    /\ upc' = "display"
    /\ UNCHANGED <<widgets, sidebar, config7, sidebarErrors, rendered, session_state>>
    /\ UNCHANGED <<clientVars, orchVars, genVars, fmtVars>>

\* if result and not result.get('error'): ... else: st.error(...)
Display ==
    /\ upc = "display"
    /\ LET r == analysis[1]
       IN IF r # None /\ ~TruthyText(Get(r[1], "error"))
          THEN IF Get(r[1], "analysis_result") # None
               THEN /\ rendered' = rendered \o ResultPanels(r[1].analysis_result[1],
                                                            config7[1][6][1], config7[1][7][1])
                    /\ mainErrors' = mainErrors
               ELSE /\ rendered' = rendered
                    /\ mainErrors' = Append(mainErrors, "No analysis results available")
          ELSE /\ rendered' = rendered
               /\ mainErrors' = Append(mainErrors, "Analysis failed: " \o
                     (IF r = None THEN "Analysis failed"
                      ELSE IF Get(r[1], "error") = None THEN "Unknown error occurred"
                      ELSE r[1].error[1]))
    /\ upc' = "quick"
    /\ UNCHANGED <<widgets, sidebar, config7, analyzeCalls, analysis, sidebarErrors,
                   session_state>>
    /\ UNCHANGED <<clientVars, orchVars, genVars, fmtVars>>

\* the two quick-pick buttons
QuickPick ==
    /\ upc = "quick"
    /\ rendered' = Append(rendered, "quick_buttons")
    /\ session_state' =
         IF widgets[1].pressed = "quick_amzn" THEN [session_state EXCEPT !.quick_symbol = Some("AMZN")]
         ELSE IF widgets[1].pressed = "quick_aapl" THEN [session_state EXCEPT !.quick_symbol = Some("AAPL")]
         ELSE session_state
    /\ upc' = "help"
    /\ UNCHANGED <<widgets, sidebar, config7, analyzeCalls, analysis, sidebarErrors, mainErrors>>
    /\ UNCHANGED <<clientVars, orchVars, genVars, fmtVars>>

\* with st.expander("How to use this app")
Help ==
    /\ upc = "help"
    /\ rendered' = Append(rendered, "help")
    /\ upc' = "end"
    /\ UNCHANGED <<widgets, sidebar, config7, analyzeCalls, analysis, sidebarErrors,
                   mainErrors, session_state>>
    /\ UNCHANGED <<clientVars, orchVars, genVars, fmtVars>>

InitUI ==
    /\ upc = "idle"
    /\ widgets = None
    /\ sidebar = None
    /\ config7 = None
    /\ analyzeCalls = 0
    /\ analysis = None
    /\ sidebarErrors = <<>>
    /\ mainErrors = <<>>
    /\ rendered = <<>>
    /\ session_state = [quick_symbol |-> None]
    /\ ClientOff /\ OrchOff /\ GenOff /\ FmtOff

NextUI ==
    \/ RunStart
    \/ SetupSidebar
    \/ Unpack
    \/ AnalyzeButton
    \/ RunAnalysis
    \/ Display
    \/ QuickPick
    \/ Help
    \/ AwaitInteraction

SpecUI == InitUI /\ [][NextUI]_vars

(***************************************************************************)
(* Claims checked under SpecUI.                                            *)
(***************************************************************************)
\* C10: in a script run with the custom date range ticked and start >= end, the
\* sidebar shows an error and analyze_stock is not called in that run, whichever
\* button started the run.
C10_RejectedDates ==
    (/\ upc \notin {"idle", "sidebar"}
     /\ widgets[1].use_custom_dates
     /\ widgets[1].start_date[1] >= widgets[1].end_date[1]) =>
        /\ sidebarErrors = <<"Start date must be before end date">>
        /\ analyzeCalls = 0
        /\ upc \notin {"analyzing", "display"}
C10_Witness ==
    /\ upc = "crashed"
    /\ widgets[1].use_custom_dates
    /\ widgets[1].start_date = widgets[1].end_date
    /\ widgets[1].pressed = "analyze"
    /\ widgets[1].symbol_text = "amzn"
    /\ sidebarErrors # <<>>
    /\ analyzeCalls = 0

\* the symbol the sidebar hands to run() in the current script run
RunSymbol == Upper(widgets[1].symbol_text)
QuickPreset(b) == IF b = "quick_amzn" THEN "AMZN" ELSE "AAPL"

\* C11: in a script run analyze_stock is called only if the Analyze button was pressed
\* and the symbol is not empty, and then once at most; an Analyze press with an empty
\* symbol shows "Please enter a stock symbol" and runs no analysis; a quick-pick press
\* writes its preset symbol to st.session_state, which nothing else changes, and runs
\* no analysis and shows no result or error.
C11_AnalyzeOnlyOnRequest ==
    /\ [](upc # "idle" =>
            /\ analyzeCalls <= 1
            /\ (analyzeCalls = 1 \/ upc = "analyzing") =>
                 (widgets[1].pressed = "analyze" /\ RunSymbol # "")
            /\ (upc \in {"quick", "help", "end"} /\ widgets[1].pressed = "analyze"
                  /\ RunSymbol = "") =>
                 (mainErrors = <<"Please enter a stock symbol">> /\ analyzeCalls = 0
                    /\ analysis = None)
            /\ widgets[1].pressed \in {"quick_amzn", "quick_aapl"} =>
                 /\ analyzeCalls = 0 /\ analysis = None /\ mainErrors = <<>>
                 /\ upc \in {"help", "end"} =>
                      session_state.quick_symbol = Some(QuickPreset(widgets[1].pressed)))
    /\ [][session_state' # session_state =>
            /\ upc = "quick"
            /\ widgets[1].pressed \in {"quick_amzn", "quick_aapl"}
            /\ session_state' = [quick_symbol |-> Some(QuickPreset(widgets[1].pressed))]
            /\ analyzeCalls' = analyzeCalls]_vars
C11_Witness ==
    /\ upc = "end"
    /\ widgets[1].pressed = "analyze"
    /\ widgets[1].symbol_text = ""
    /\ mainErrors = <<"Please enter a stock symbol">>
    /\ analyzeCalls = 0
    /\ session_state.quick_symbol = Some("AAPL")

\* C12, as claimed: every script run reaches the end of run() with the quick-pick
\* buttons and the help panel rendered, whatever the input and the outcome of the
\* analysis; a failure shows a message and takes nothing else away.
C12_RunReachesEnd ==
    /\ upc # "crashed"
    /\ upc = "end" =>
         /\ Len(rendered) >= 2
         /\ SubSeq(rendered, Len(rendered) - 1, Len(rendered)) = <<"quick_buttons", "help">>

====
